---- MODULE Spec2Model ----
(***************************************************************************)
(* State-machine model of yt_dlp/extractor/tiktok.py: the app-version      *)
(* negotiation of TikTokBaseIE._call_api, the list pagination driver       *)
(* TikTokBaseListIE._entries, single-video extraction with its web         *)
(* fallback, the user collection's feed lookups, the short-link extractor,  *)
(* and the reconciliation of a raw item (_parse_aweme_video_app with        *)
(* _get_subtitles) into its format list, track attribution and subtitles.   *)
(***************************************************************************)
EXTENDS Naturals, Integers, Sequences, FiniteSets, TLC

VARIABLES
    args,      \* extractor arguments app_version / manifest_app_version (supplied or not)
    working,   \* _WORKING_APP_VERSION as seen through each extractor instance
    call,      \* per thread: the frame of the _call_api invocation in progress
    drv,       \* per thread: the frame of the operation that issued the call
    item       \* a raw item under reconciliation, with what was made of it

vars == <<item, args, working, call, drv>>

----------------------------------------------------------------------------
(* Bounds of the model *)

NumThreads == 2     \* threads that may run extractions
MaxPages == 2       \* pages a listed collection has at most
MaxItems == 2       \* items one page response carries at most
MaxCursor == 2      \* distinct cursor tokens the server hands out
MaxAttempts == 2    \* consecutive attempts explored for one page
MaxVideos == 2      \* videos of a user collection
MaxLadder == 2      \* entries of the bit_rate list of a raw item
MaxStreams == 2     \* stream addresses a raw item carries
MaxCaptions == 2    \* auto captions a raw item carries
MaxUtterances == 2  \* utterances of one caption

----------------------------------------------------------------------------
(* Program constants *)

\* _APP_VERSIONS: four (app_version, manifest_app_version) pairs; a candidate
\* is named by its 1-based position, as enumerate(..., start=1) counts them.
NumAppVersions == 4
_APP_VERSIONS == 1 .. NumAppVersions

\* _WORKING_APP_VERSION = None
NoPin == 0
\* the (app_version, manifest_app_version) pair taken from the extractor arguments
OverridePin == NumAppVersions + 1

Pins == {NoPin} \cup _APP_VERSIONS \cup {OverridePin}

Threads == 1 .. NumThreads

\* One instance per extractor class: the host keeps a single instance of each.
Insts == {"TikTok", "TikTokUser", "TikTokSound", "Douyin"}

\* What the call _call_api_impl makes can do: return the parsed JSON, raise an
\* ExtractorError whose cause is a JSONDecodeError at pos 0, or raise another
\* ExtractorError.
Outcomes == {"ok", "json0", "other"}

\* API endpoints the model distinguishes by the shape of their response.
Endpoints == {"any", "feed", "list"}

NoBody == [n |-> 0, has_more |-> FALSE, cursor |-> 0, found |-> FALSE]

\* Response bodies per endpoint: feed -> whether aweme_list holds the requested
\* id; list -> aweme_list length, has_more, cursor. The cursor of a response
\* without has_more is never read (line 795 leaves the loop before line 797), so
\* one token stands for it.
Bodies(ep, more) ==
    CASE ep = "feed" -> {[NoBody EXCEPT !.found = f] : f \in BOOLEAN}
      [] ep = "list" ->
           {[n |-> k, has_more |-> FALSE, cursor |-> 1, found |-> FALSE] : k \in 0 .. MaxItems}
           \cup {[n |-> k, has_more |-> h, cursor |-> c, found |-> FALSE] :
                    k \in 0 .. MaxItems, h \in {more} \ {FALSE}, c \in 1 .. MaxCursor}
      [] OTHER -> {NoBody}

----------------------------------------------------------------------------
(* TikTokBaseIE._call_api *)

IdleCall ==
    [pc |-> "idle", inst |-> "TikTok", ep |-> "any", more |-> FALSE, fatal |-> TRUE,
     entry |-> NoPin, held |-> {}, cand |-> NoPin, count |-> 0, reqs |-> <<>>, outs |-> <<>>,
     ret |-> "-", body |-> NoBody, err |-> "-", warns |-> 0]

\* The frame of a call that has just been entered.
NewCall(inst, ep, more, fatal) ==
    [IdleCall EXCEPT !.pc = "begin", !.inst = inst, !.ep = ep, !.more = more,
                     !.fatal = fatal]

\* self._WORKING_APP_VERSION read through an instance: the instance attribute,
\* or the class attribute (None) while the instance has none.
ReadWorking(w, inst) == w[inst]

\* self._WORKING_APP_VERSION = (...): an assignment through self binds the
\* attribute on that instance only.
WriteWorking(w, inst, pin) == [w EXCEPT ![inst] = pin]

\* Lines 106-113: with nothing pinned, both extractor arguments pin the
\* override pair; one alone only warns.
ImportArgs_Ignored(pin) == pin

ImportArgs(pin) ==
    IF pin = NoPin /\ args.app_version /\ args.manifest_app_version
    THEN OverridePin ELSE pin

OnlyOneArg(pin) ==
    pin = NoPin /\ (args.app_version # args.manifest_app_version)

\* Line 127: the failure that lets the sweep go on to the next candidate.
IsRetryable_Any(out) == out # "ok"

IsRetryable(out) == out = "json0"

\* Line 128: count == len(self._APP_VERSIONS)
IsLastCandidate_Never(count) == FALSE

IsLastCandidate(count) == count = NumAppVersions

\* Line 115: a pinned pair is used exclusively.
UsePinned_Never(pin) == FALSE

UsePinned(pin) == pin # NoPin

\* Line 129: a mandatory call re-raises the last candidate's error.
RaiseOnExhaustion_Always(fatal) == TRUE

RaiseOnExhaustion(fatal) == fatal

\* Line 120: enumerate(self._APP_VERSIONS, start=1) begins with the head of the list.
FirstCandidate_Second == 1 + 1

FirstCandidate == 1

\* The pairs pinned anywhere in the process (kept in the frame for the record only).
PinsHeld(w) == {w[i] : i \in Insts} \ {NoPin}

\* Lines 106-115 and the entry of the loop at 120.
CallBegin(t) ==
    /\ call[t].pc = "begin"
    /\ LET c0 == call[t]
           pin == ImportArgs(ReadWorking(working, c0.inst))
           w == IF OnlyOneArg(ReadWorking(working, c0.inst)) THEN 1 ELSE 0
           c == [c0 EXCEPT !.held = PinsHeld(working)]
       IN /\ working' = IF pin # ReadWorking(working, c.inst)
                        THEN WriteWorking(working, c.inst, pin) ELSE working
          /\ call' = [call EXCEPT ![t] =
                        IF UsePinned(pin)
                        THEN [c EXCEPT !.pc = "pinned", !.entry = pin, !.cand = pin,
                                       !.warns = w]
                        ELSE [c EXCEPT !.pc = "sweep", !.entry = pin,
                                       !.count = FirstCandidate, !.warns = w]]
    /\ UNCHANGED <<item, args, drv>>

\* Lines 116-118: the single request made with the pinned pair; whatever
\* _call_api_impl raises leaves _call_api uncaught.
CallPinned(t) ==
    /\ call[t].pc = "pinned"
    /\ \E out \in Outcomes, b \in Bodies(call[t].ep, call[t].more) :
         LET c == call[t]
             c1 == [c EXCEPT !.reqs = Append(c.reqs, c.cand), !.outs = Append(c.outs, out)]
         IN call' = [call EXCEPT ![t] =
                       IF out = "ok"
                       THEN [c1 EXCEPT !.pc = "returned", !.ret = "json", !.body = b]
                       ELSE [c1 EXCEPT !.pc = "raised", !.err = out]]
    /\ UNCHANGED <<item, args, working, drv>>

\* Lines 120-136: one turn of the loop over enumerate(self._APP_VERSIONS, start=1).
CallSweep(t) ==
    /\ call[t].pc = "sweep"
    /\ \E out \in Outcomes, b \in Bodies(call[t].ep, call[t].more) :
         LET c == call[t]
             c1 == [c EXCEPT !.reqs = Append(c.reqs, c.count), !.outs = Append(c.outs, out)]
         IN IF out = "ok"
            THEN /\ working' = WriteWorking(working, c.inst, c.count)
                 /\ call' = [call EXCEPT ![t] =
                               [c1 EXCEPT !.pc = "returned", !.ret = "json", !.body = b]]
            ELSE /\ working' = working
                 /\ call' = [call EXCEPT ![t] =
                      IF IsRetryable(out)
                      THEN IF IsLastCandidate(c.count)
                           THEN IF RaiseOnExhaustion(c.fatal)
                                THEN [c1 EXCEPT !.pc = "raised", !.err = out]
                                ELSE [c1 EXCEPT !.pc = "returned", !.ret = "None",
                                                !.warns = c.warns + 1]
                           ELSE [c1 EXCEPT !.count = c.count + 1, !.warns = c.warns + 1]
                      ELSE [c1 EXCEPT !.pc = "raised", !.err = out]]
    /\ UNCHANGED <<item, args, drv>>

CallDone(t) == call[t].pc \in {"returned", "raised"}

----------------------------------------------------------------------------
(* Callers *)

IdleDrv ==
    [op |-> "idle", pc |-> "idle", page |-> 0, cursor |-> 0, attempt |-> 0,
     idx |-> 0, videos |-> 0, log |-> <<>>, got |-> <<>>, yielded |-> <<>>,
     miss |-> FALSE, web |-> FALSE, status |-> "-", expected |-> FALSE,
     heads |-> 0, url |-> [host |-> "-", path |-> "-"], prev |-> "-", warned |-> FALSE,
     result |-> "-"]

\* A thread with no extraction in progress.
Idle(t) == drv[t].op = "idle" /\ call[t].pc = "idle"

\* A direct _call_api(ep, query, video_id, fatal) on some extractor instance.
ApiStart(t, inst, fatal) ==
    /\ Idle(t)
    /\ drv' = [drv EXCEPT ![t] = [IdleDrv EXCEPT !.op = "api", !.pc = "call"]]
    /\ call' = [call EXCEPT ![t] = NewCall(inst, "any", FALSE, fatal)]
    /\ UNCHANGED <<item, args, working>>

\* The caller takes the result (or the error) of the finished call.
ApiFinish(t) ==
    /\ drv[t].op = "api"
    /\ CallDone(t)
    /\ drv' = [drv EXCEPT ![t] = IdleDrv]
    /\ call' = [call EXCEPT ![t] = IdleCall]
    /\ UNCHANGED <<item, args, working>>

\* How a finished call ended, as its caller sees it: "failed" when the call
\* entered the loop of line 120 and no candidate's request returned, "pinned
\* failed" when the one request of line 118 failed.
EndedAs(c) ==
    IF c.outs[Len(c.outs)] = "ok" THEN "ok"
    ELSE IF c.entry = NoPin THEN "failed" ELSE "pinned failed"

\* The caller goes on to its next _call_api on the same extractor (as the
\* retry loop of lines 778-787 does after an error, or any caller that took
\* the None of line 133), remembering how the previous call ended.
ApiAgain(t, fatal) ==
    /\ drv[t].op = "api"
    /\ CallDone(t)
    /\ drv' = [drv EXCEPT ![t] = [drv[t] EXCEPT !.prev = EndedAs(call[t])]]
    /\ call' = [call EXCEPT ![t] = NewCall(call[t].inst, "any", FALSE, fatal)]
    /\ UNCHANGED <<item, args, working>>

----------------------------------------------------------------------------
(* TikTokBaseListIE._entries, run on the TikTokSound instance *)

\* Line 784: the failure of a page request that is handed to the retry manager.
RetrySamePage_Any(err) == TRUE

RetrySamePage(err) == err = "json0"

\* self.RetryManager(): the loop makes another attempt while the last one set
\* retry.error.
ShouldRetry(errorSet) == errorSet

\* Line 795: if not post_list.get('has_more'): break
HasMore_Always(body) == TRUE

HasMore(body) == body.has_more

\* Line 797: query['cursor'] = post_list['cursor']
NextCursor(cursor, body) == body.cursor

\* Lines 780-782: the page request; the server has a further page to announce
\* only below MaxPages.
PageCall(page) == NewCall("TikTokSound", "list", page < MaxPages, TRUE)

\* Lines 769-780: the first pull on the generator builds the query (cursor 0)
\* and requests page 1.
EntriesStart(t) ==
    /\ Idle(t)
    /\ drv' = [drv EXCEPT ![t] =
                 [IdleDrv EXCEPT !.op = "entries", !.pc = "call", !.page = 1,
                                 !.cursor = 0, !.attempt = 1]]
    /\ call' = [call EXCEPT ![t] = PageCall(1)]
    /\ UNCHANGED <<item, args, working>>

\* Lines 778-788: the page request has ended. An empty-body failure sets
\* retry.error and the same request is made again; any other failure leaves the
\* generator; a response starts the loop over its aweme_list.
EntriesPageResult(t) ==
    /\ drv[t].op = "entries" /\ drv[t].pc = "call"
    /\ CallDone(t)
    /\ LET d == drv[t]
           c == call[t]
           out == IF c.pc = "returned" THEN "ok" ELSE c.err
           d1 == [d EXCEPT !.log = Append(d.log,
                     [page |-> d.page, cursor |-> d.cursor, out |-> out,
                      ny |-> Len(d.yielded)])]
       IN IF c.pc = "returned"
          THEN /\ drv' = [drv EXCEPT ![t] =
                            [d1 EXCEPT !.pc = "yield", !.idx = 0,
                                       !.got = Append(d.got, c.body)]]
               /\ call' = [call EXCEPT ![t] = IdleCall]
          ELSE IF RetrySamePage(c.err) /\ ShouldRetry(TRUE)
               THEN /\ d.attempt < MaxAttempts
                    /\ drv' = [drv EXCEPT ![t] = [d1 EXCEPT !.attempt = d.attempt + 1]]
                    /\ call' = [call EXCEPT ![t] = PageCall(d.page)]
               ELSE /\ drv' = [drv EXCEPT ![t] = [d1 EXCEPT !.pc = "aborted"]]
                    /\ call' = [call EXCEPT ![t] = IdleCall]
    /\ UNCHANGED <<item, args, working>>

\* Line 789 and line 720: the record handed to the consumer joins those already
\* produced.
YieldRecord_First(yielded, page, k) == <<<<page, k>>>> \o yielded

YieldRecord(yielded, page, k) == Append(yielded, <<page, k>>)

\* Lines 788-794: the next record of the page is yielded; a raw record that
\* _parse_aweme_video_app cannot reconcile (a KeyError of lines 160-161, say)
\* raises out of the generator, where nothing catches it.
EntriesYield(t) ==
    /\ drv[t].op = "entries" /\ drv[t].pc = "yield"
    /\ LET d == drv[t]
           body == d.got[Len(d.got)]
       IN /\ d.idx < body.n
          /\ \E ok \in BOOLEAN :
               drv' = [drv EXCEPT ![t] =
                         IF ok
                         THEN [d EXCEPT !.idx = d.idx + 1,
                                        !.yielded = YieldRecord(d.yielded, d.page, d.idx + 1)]
                         ELSE [d EXCEPT !.pc = "aborted", !.result = "item error"]]
    /\ UNCHANGED <<item, args, working, call>>

\* Lines 795-797 and 777-782: after the last record of a page, stop unless the
\* response declared has_more; otherwise take its cursor and request the next page.
EntriesAdvance(t) ==
    /\ drv[t].op = "entries" /\ drv[t].pc = "yield"
    /\ LET d == drv[t]
           body == d.got[Len(d.got)]
       IN /\ d.idx = body.n
          /\ IF ~HasMore(body)
             THEN /\ drv' = [drv EXCEPT ![t] = [d EXCEPT !.pc = "done"]]
                  /\ call' = call
             ELSE /\ d.page < MaxPages + 1
                  /\ drv' = [drv EXCEPT ![t] =
                               [d EXCEPT !.pc = "call", !.page = d.page + 1,
                                         !.cursor = NextCursor(d.cursor, body),
                                         !.attempt = 1]]
                  /\ call' = [call EXCEPT ![t] = PageCall(d.page + 1)]
    /\ UNCHANGED <<item, args, working>>

\* The consumer is through with the generator.
EntriesFinish(t) ==
    /\ drv[t].op = "entries" /\ drv[t].pc \in {"done", "aborted"}
    /\ drv' = [drv EXCEPT ![t] = IdleDrv]
    /\ UNCHANGED <<item, args, working, call>>

----------------------------------------------------------------------------
(* TikTokIE._real_extract, run on the TikTok instance *)

\* Lines 535-536: the feed request of _extract_aweme_app and _extract_secuid.
FeedCall(inst) == NewCall(inst, "feed", FALSE, TRUE)

\* What the web page of lines 550-558 gives: the download fails, or the page
\* carries status 0 (or none), 10216, or another status.
WebPages == {"download_failed", "status_0", "status_10216", "status_other"}

\* Lines 543-545: the API path is taken first.
VideoBegin(t) ==
    /\ drv' = [drv EXCEPT ![t] = [IdleDrv EXCEPT !.op = "video", !.pc = "app"]]
    /\ call' = [call EXCEPT ![t] = FeedCall("TikTok")]
    /\ UNCHANGED <<item, args, working>>

\* The host hands a video URL to the extractor.
VideoStart(t) == Idle(t) /\ VideoBegin(t)

\* The extractors of a single video: TikTokIE and DouyinIE, which inherits
\* _extract_aweme_app from it.
SingleVideo == {"video", "douyin"}

\* Lines 534-540: what _extract_aweme_app does with a finished feed call: the
\* call's own ExtractorError, the ExtractorError of line 539 when the id is
\* not in aweme_list, or the item handed to _parse_aweme_video_app.
AppErrors == {"json0", "other", "Unable to find video in feed"}

AppOutcome(c) ==
    IF c.pc = "raised" THEN c.err
    ELSE IF ~c.body.found THEN "Unable to find video in feed"
    ELSE "item"

\* What _parse_aweme_video_app makes of the item: the record, or the KeyError
\* of line 161 for an item without 'video'.
ParseOutcomes == {"record", "KeyError"}

\* Lines 546 and 971: except ExtractorError takes every error of AppErrors.
CatchesAppError_OnlyMiss(err) == err = "Unable to find video in feed"

CatchesAppError(err) == err \in AppErrors

\* Lines 543-547 and 968-972: the API path has ended. The record is returned;
\* an ExtractorError is reported as a warning and the web path follows; a
\* KeyError is not an ExtractorError and leaves _real_extract.
VideoAppResult(t) ==
    /\ drv[t].op \in SingleVideo /\ drv[t].pc = "app"
    /\ CallDone(t)
    /\ LET c == call[t]
           out == AppOutcome(c)
           d == [drv[t] EXCEPT !.prev = EndedAs(c)]
       IN IF out = "item"
          THEN \E parsed \in ParseOutcomes :
                 drv' = [drv EXCEPT ![t] =
                           IF parsed = "record"
                           THEN [d EXCEPT !.pc = "done", !.result = "app"]
                           ELSE [d EXCEPT !.pc = "failed", !.result = parsed]]
          ELSE drv' = [drv EXCEPT ![t] =
                         IF CatchesAppError(out)
                         THEN [d EXCEPT !.pc = "web", !.warned = TRUE,
                                        !.miss = (c.pc = "returned")]
                         ELSE [d EXCEPT !.pc = "failed", !.result = out,
                                        !.miss = (c.pc = "returned")]]
    /\ call' = [call EXCEPT ![t] = IdleCall]
    /\ UNCHANGED <<item, args, working>>

\* Lines 560-564: what the status code of the downloaded page decides. A failed
\* download raises before any status is read.
WebOutcome_NotAvailable(w) ==
    CASE w = "status_0" -> [pc |-> "done", result |-> "web", expected |-> FALSE]
      [] w = "download_failed" -> [pc |-> "failed", result |-> "download error", expected |-> FALSE]
      [] OTHER -> [pc |-> "failed", result |-> "Video not available", expected |-> FALSE]

WebOutcome(w) ==
    CASE w = "status_0" -> [pc |-> "done", result |-> "web", expected |-> FALSE]
      [] w = "status_10216" -> [pc |-> "failed", result |-> "This video is private", expected |-> TRUE]
      [] w = "status_other" -> [pc |-> "failed", result |-> "Video not available", expected |-> FALSE]
      [] OTHER -> [pc |-> "failed", result |-> "download error", expected |-> FALSE]

\* Lines 549-564: the web page path.
VideoWeb(t) ==
    /\ drv[t].op = "video" /\ drv[t].pc = "web"
    /\ \E w \in WebPages :
         drv' = [drv EXCEPT ![t] =
                   [drv[t] EXCEPT !.web = TRUE,
                                  !.status = w,
                                  !.pc = WebOutcome(w).pc,
                                  !.result = WebOutcome(w).result,
                                  !.expected = WebOutcome(w).expected]]
    /\ UNCHANGED <<item, args, working, call>>

\* Lines 966-972: DouyinIE takes the API path first, on its own instance.
DouyinStart(t) ==
    /\ Idle(t)
    /\ drv' = [drv EXCEPT ![t] = [IdleDrv EXCEPT !.op = "douyin", !.pc = "app"]]
    /\ call' = [call EXCEPT ![t] = FeedCall("Douyin")]
    /\ UNCHANGED <<item, args, working>>

\* What the page of line 974 gives: the download fails, or the page has no
\* RENDER_DATA script, or it has one.
DouyinPages == {"download_failed", "no_render_data", "render_data"}

\* Lines 974-984: without render data the extraction raises; with it the web
\* record is returned.
DouyinOutcome(w) ==
    CASE w = "render_data" -> [pc |-> "done", result |-> "web"]
      [] w = "no_render_data" -> [pc |-> "failed", result |-> "Fresh cookies are needed"]
      [] OTHER -> [pc |-> "failed", result |-> "download error"]

\* Lines 974-984: the web page path of DouyinIE.
DouyinWeb(t) ==
    /\ drv[t].op = "douyin" /\ drv[t].pc = "web"
    /\ \E w \in DouyinPages :
         drv' = [drv EXCEPT ![t] =
                   [drv[t] EXCEPT !.web = TRUE,
                                  !.status = w,
                                  !.pc = DouyinOutcome(w).pc,
                                  !.result = DouyinOutcome(w).result]]
    /\ UNCHANGED <<item, args, working, call>>

\* The host takes the record or the error.
VideoFinish(t) ==
    /\ drv[t].op \in SingleVideo /\ drv[t].pc \in {"done", "failed"}
    /\ drv' = [drv EXCEPT ![t] = IdleDrv]
    /\ UNCHANGED <<item, args, working, call>>

----------------------------------------------------------------------------
(* TikTokUserIE._real_extract, run on the TikTokUser instance *)

\* Lines 741-747: the embed page is downloaded and the sec_uid of the latest
\* video looked up in the feed.
UserBegin(t) ==
    /\ \E ok \in BOOLEAN :
         IF ok
         THEN /\ drv' = [drv EXCEPT ![t] = [IdleDrv EXCEPT !.op = "user", !.pc = "secuid"]]
              /\ call' = [call EXCEPT ![t] = FeedCall("TikTokUser")]
         ELSE /\ drv' = [drv EXCEPT ![t] =
                           [IdleDrv EXCEPT !.op = "user", !.pc = "failed",
                                           !.result = "download error"]]
              /\ call' = call
    /\ UNCHANGED <<item, args, working>>

\* The host hands a user URL to the extractor.
UserStart(t) == Idle(t) /\ UserBegin(t)

\* Lines 733-738 and 747: _extract_secuid raises when the item is not in the
\* feed; nothing in _real_extract catches it or an error of the call.
UserSecuidResult(t) ==
    /\ drv[t].op = "user" /\ drv[t].pc = "secuid"
    /\ CallDone(t)
    /\ LET d == drv[t]
           c == call[t]
       IN drv' = [drv EXCEPT ![t] =
                    IF c.pc = "returned" /\ c.body.found
                    THEN [d EXCEPT !.pc = "browse", !.page = 1, !.cursor = 0]
                    ELSE [d EXCEPT !.pc = "failed", !.miss = (c.pc = "returned"),
                                   !.result = IF c.pc = "returned"
                                              THEN "Unable to find video in feed"
                                              ELSE "api error"]]
    /\ call' = [call EXCEPT ![t] = IdleCall]
    /\ UNCHANGED <<item, args, working>>

\* Lines 671-686: one page of _video_entries_api in the headless browser; the
\* list ends with the first page that does not declare hasMore. Line 750-764:
\* the playlist is then returned with the lazy _entries_api over the videos.
\* The cursor is read (line 686) only from a page that declares hasMore.
UserBrowsePage(t) ==
    /\ drv[t].op = "user" /\ drv[t].pc = "browse"
    /\ LET d == drv[t] IN
       \E ok \in BOOLEAN, n \in 0 .. (MaxVideos - d.videos),
          more \in {FALSE, d.page < MaxPages} :
         \E cur \in IF more THEN 1 .. MaxCursor ELSE {1} :
         LET d1 == [d EXCEPT !.log = Append(d.log,
                       [page |-> d.page, cursor |-> d.cursor,
                        out |-> IF ok THEN "ok" ELSE "other", ny |-> Len(d.yielded)])]
             d2 == [d1 EXCEPT !.videos = d.videos + n,
                              !.got = Append(d.got, [n |-> n, has_more |-> more,
                                                     cursor |-> cur, found |-> FALSE])]
         IN drv' = [drv EXCEPT ![t] =
                      IF ~ok
                      THEN [d1 EXCEPT !.pc = "failed", !.result = "browser error"]
                      ELSE IF more
                      THEN [d2 EXCEPT !.page = d.page + 1, !.cursor = cur]
                      ELSE [d2 EXCEPT !.pc = "entries", !.idx = 0]]
    /\ UNCHANGED <<item, args, working, call>>

\* Lines 717-719: the generator turns to the next video, if any, and asks the
\* feed for it.
UserNextVideo(t) ==
    /\ drv[t].op = "user" /\ drv[t].pc = "entries"
    /\ LET d == drv[t] IN
       IF d.idx < d.videos
       THEN /\ drv' = [drv EXCEPT ![t] = [d EXCEPT !.pc = "item"]]
            /\ call' = [call EXCEPT ![t] = FeedCall("TikTokUser")]
       ELSE /\ drv' = [drv EXCEPT ![t] = [d EXCEPT !.pc = "done"]]
            /\ call' = call
    /\ UNCHANGED <<item, args, working>>

\* Lines 718-723 with 534-540: the record of the video is yielded; an item
\* missing from the feed, or a failed call, raises out of the generator.
UserItemResult(t) ==
    /\ drv[t].op = "user" /\ drv[t].pc = "item"
    /\ CallDone(t)
    /\ LET d == drv[t]
           c == call[t]
       IN drv' = [drv EXCEPT ![t] =
                    IF c.pc = "returned" /\ c.body.found
                    THEN [d EXCEPT !.pc = "entries", !.idx = d.idx + 1,
                                   !.yielded = YieldRecord(d.yielded, 1, d.idx + 1)]
                    ELSE [d EXCEPT !.pc = "failed", !.miss = (c.pc = "returned"),
                                   !.result = IF c.pc = "returned"
                                              THEN "Unable to find video in feed"
                                              ELSE "api error"]]
    /\ call' = [call EXCEPT ![t] = IdleCall]
    /\ UNCHANGED <<item, args, working>>

\* The host takes the playlist or the error.
UserFinish(t) ==
    /\ drv[t].op = "user" /\ drv[t].pc \in {"done", "failed"}
    /\ drv' = [drv EXCEPT ![t] = IdleDrv]
    /\ UNCHANGED <<item, args, working, call>>

----------------------------------------------------------------------------
(* TikTokVMIE._real_extract *)

\* URLs a short link may resolve to: a host and the shape of the path.
Urls ==
    [host : {"vm.tiktok.com", "vt.tiktok.com", "www.tiktok.com", "example.com"},
     path : {"", "ZSe4FqkKd", "@user", "@user/video/7023491746608712966"}]

\* Line 988: _VALID_URL, (vm|vt).tiktok.com followed by at least one word
\* character.
MatchesShortLink(url) ==
    /\ url.host \in {"vm.tiktok.com", "vt.tiktok.com"}
    /\ url.path = "ZSe4FqkKd"

\* InfoExtractor.suitable: whether the URL matches the pattern of the extractor
\* itself.
Suitable(url) == MatchesShortLink(url)

\* Lines 1021-1022: the guard against a redirect that is a short link again.
RaisesUnsupported_Never(new_url) == FALSE

RaisesUnsupported(new_url) == Suitable(new_url)

\* The extractor the host picks for a URL handed back by url_result: the first
\* whose pattern matches.
Dispatch(url) ==
    CASE MatchesShortLink(url) -> "vm"
      [] url.host = "www.tiktok.com" /\ url.path = "@user/video/7023491746608712966" -> "video"
      [] url.host = "www.tiktok.com" /\ url.path = "@user" -> "user"
      [] OTHER -> "generic"

\* Lines 1019-1020: the HEAD request for the short link is sent.
VMStart(t) ==
    /\ Idle(t)
    /\ drv' = [drv EXCEPT ![t] = [IdleDrv EXCEPT !.op = "vm", !.pc = "head", !.heads = 1]]
    /\ UNCHANGED <<item, args, working, call>>

\* Lines 1019-1023: the request fails, or it resolves to a URL; a URL the
\* extractor itself would take raises UnsupportedError, any other is handed
\* back with url_result.
VMResolved(t) ==
    /\ drv[t].op = "vm" /\ drv[t].pc = "head"
    /\ \/ drv' = [drv EXCEPT ![t] =
                    [drv[t] EXCEPT !.pc = "failed", !.result = "download error"]]
       \/ \E new_url \in Urls :
            drv' = [drv EXCEPT ![t] =
                      IF RaisesUnsupported(new_url)
                      THEN [drv[t] EXCEPT !.pc = "failed", !.url = new_url,
                                          !.result = "UnsupportedError"]
                      ELSE [drv[t] EXCEPT !.pc = "redirect", !.url = new_url,
                                          !.result = "url_result"]]
    /\ UNCHANGED <<item, args, working, call>>

\* The host extracts the URL of the url_result with the extractor that matches
\* it: the single-video or the user extractor of this file, the short-link
\* extractor again, or one outside this file.
VMDispatch(t) ==
    /\ drv[t].op = "vm" /\ drv[t].pc = "redirect"
    /\ LET to == Dispatch(drv[t].url) IN
       CASE to = "video" -> VideoBegin(t)
         [] to = "user" -> UserBegin(t)
         [] to = "vm" ->
              /\ drv' = [drv EXCEPT ![t] =
                           [IdleDrv EXCEPT !.op = "vm", !.pc = "head", !.heads = 1]]
              /\ UNCHANGED <<item, args, working, call>>
         [] OTHER ->
              /\ drv' = [drv EXCEPT ![t] = IdleDrv]
              /\ UNCHANGED <<item, args, working, call>>

\* The host takes the error.
VMFinish(t) ==
    /\ drv[t].op = "vm" /\ drv[t].pc = "failed"
    /\ drv' = [drv EXCEPT ![t] = IdleDrv]
    /\ UNCHANGED <<item, args, working, call>>

----------------------------------------------------------------------------
(* TikTokBaseIE._get_subtitles *)

\* '%02d' and '%03d' of a number, digit by digit.
Pad2(n) == <<(n \div 10) % 10, n % 10>>

Pad3(n) == <<(n \div 100) % 10, (n \div 10) % 10, n % 10>>

\* utils.srt_subtitles_timecode of a time given in milliseconds:
\* 'HH:MM:SS,mmm'.
SrtTimecode(msec) ==
    Pad2(msec \div 3600000) \o <<":">> \o Pad2((msec \div 60000) % 60) \o <<":">>
        \o Pad2((msec \div 1000) % 60) \o <<",">> \o Pad3(msec % 1000)

\* Lines 153-155: the cues of one caption: the utterances that have a text,
\* each under the number enumerate() gave it among all utterances.
RECURSIVE SrtCues(_)
SrtCues(utterances) ==
    IF utterances = <<>> THEN <<>>
    ELSE LET n == Len(utterances)
             line == utterances[n]
             front == SrtCues(SubSeq(utterances, 1, n - 1))
         IN IF line.text = "" THEN front
            ELSE Append(front, [num |-> (n - 1) + 1,
                                start |-> SrtTimecode(line.start_time),
                                end |-> SrtTimecode(line.end_time),
                                text |-> line.text])

\* Line 151: caption.get('language', 'en')
Language(caption) == IF caption.language = <<>> THEN <<"en">> ELSE caption.language

\* Lines 140-157: the subtitles by language; a caption without URL or whose
\* download failed is passed over.
RECURSIVE GetSubtitles(_)
GetSubtitles(captions) ==
    IF captions = <<>> THEN <<>>
    ELSE LET n == Len(captions)
             caption == captions[n]
             subtitles == GetSubtitles(SubSeq(captions, 1, n - 1))
             sofar == IF Language(caption) \in DOMAIN subtitles
                      THEN subtitles[Language(caption)] ELSE <<>>
         IN IF ~caption.has_url \/ ~caption.fetched THEN subtitles
            ELSE (Language(caption) :> Append(sofar, SrtCues(caption.utterances)))
                     @@ subtitles

\* Utterances of caption responses: the one of the interface example, one
\* without text, one late in the video.
Utterances ==
    {[start_time |-> 0, end_time |-> 1000, text |-> "hi"],
     [start_time |-> 1000, end_time |-> 2500, text |-> ""],
     [start_time |-> 3723004, end_time |-> 3725678, text |-> "bye"]}

\* Utterance lists, no utterance twice.
Transcripts ==
    {u \in UNION {[1 .. n -> Utterances] : n \in 0 .. MaxUtterances} :
        \A i, k \in DOMAIN u : i # k => u[i] # u[k]}

\* Auto captions of raw items: without URL, with a URL whose download fails,
\* or with a URL that gives a transcript; with or without a language.
Captions ==
    {[has_url |-> FALSE, fetched |-> FALSE, language |-> <<>>, utterances |-> <<>>],
     [has_url |-> TRUE, fetched |-> FALSE, language |-> <<>>, utterances |-> <<>>]}
    \cup [has_url : {TRUE}, fetched : {TRUE}, language : {<<>>, <<"fr">>},
          utterances : Transcripts]

----------------------------------------------------------------------------
(* TikTokBaseIE._parse_aweme_video_app: the raw item and its record *)

\* Strings are sequences of their parts, so that a formatted string can be
\* compared with a literal one; None is the sequence with no part.
None == <<>>

\* traverse_obj over alternative paths: the first alternative that is there.
RECURSIVE FirstAvailable(_)
FirstAvailable(alts) ==
    IF alts = <<>> THEN None
    ELSE IF Head(alts) # None THEN Head(alts)
    ELSE FirstAvailable(Tail(alts))

\* x or y
OrElse(x, y) == IF x # None THEN x ELSE y

NoSong == [title |-> None, author |-> None]

NoMusic ==
    [is_original_sound |-> FALSE, title |-> None, owner_handle |-> None,
     author |-> None, matched_song |-> NoSong, matched_pgc_sound |-> NoSong]

\* A stream address that is not there.
NoAddr == [url_key |-> <<>>, url_list |-> <<>>, data_size |-> None]

\* video_info: its dimensions and its stream addresses in the order of lines
\* 198-238: play_addr, download_addr, play_addr_h264, play_addr_bytevc1, then
\* the play_addr of each bit_rate entry.
NoVideo == [width |-> None, height |-> None, addrs |-> <<NoAddr, NoAddr, NoAddr, NoAddr>>]

NoItem ==
    [pc |-> "none", music |-> NoMusic, track |-> None, artist |-> None,
     video |-> NoVideo, raw_formats |-> <<>>, formats |-> <<>>,
     captions |-> <<>>, subtitles |-> <<>>]

\* Line 271: 'original sound - %s' % owner_handle
GenericTitle(owner_handle) == <<"original sound - ">> \o owner_handle

\* Line 271: the track carries the auto-generated name of an original sound.
IsGenericOgTrackname_ByFlag(music_info) == music_info.is_original_sound

IsGenericOgTrackname(music_info) ==
    /\ music_info.is_original_sound
    /\ music_info.title = GenericTitle(music_info.owner_handle)

\* Lines 266-267.
ContainedMusicTrack(music_info) ==
    FirstAvailable(<<music_info.matched_song.title, music_info.matched_pgc_sound.title>>)

\* Lines 268-269.
ContainedMusicAuthor(music_info) ==
    FirstAvailable(<<music_info.matched_song.author, music_info.matched_pgc_sound.author,
                     music_info.author>>)

\* Lines 272-275 and 292: the track of the record.
MusicTrack(music_info) ==
    IF IsGenericOgTrackname(music_info)
    THEN OrElse(ContainedMusicTrack(music_info), <<"original sound">>)
    ELSE music_info.title

\* Lines 272-275 and 294: the artist of the record.
MusicAuthor(music_info) ==
    IF IsGenericOgTrackname(music_info)
    THEN ContainedMusicAuthor(music_info)
    ELSE music_info.author

\* Line 44.
QUALITIES == <<"360p", "540p", "720p", "1080p">>

\* utils.qualities: the position of the tag in the list of tiers, -1 for a tag
\* that is not in it.
Qualities(res) ==
    IF \E i \in DOMAIN QUALITIES : QUALITIES[i] = res
    THEN (CHOOSE i \in DOMAIN QUALITIES : QUALITIES[i] = res) - 1
    ELSE -1

\* Line 184: int_or_none(res[:-1])
ResHeight(res) ==
    CASE res = "360p" -> 360
      [] res = "480p" -> 480
      [] res = "540p" -> 540
      [] res = "720p" -> 720
      [] res = "1080p" -> 1080

\* dict.get(k)
Get(d, k) == IF k \in DOMAIN d THEN d[k] ELSE None

\* dict.setdefault(k, v), as the dict it leaves
SetDefault(d, k, v) == IF k \in DOMAIN d THEN d ELSE (k :> v) @@ d

\* Lines 164-166: a url_key is the sequence of its parts between underscores;
\* the expression matches the four parts v..., codec, resolution tag, bitrate.
MatchesUrlKey(url_key) == Len(url_key) = 4

\* Lines 163-174: the metadata read from the token, and its resolution tag.
ParseUrlKey(url_key) ==
    IF ~MatchesUrlKey(url_key)
    THEN [meta |-> <<>>, res |-> None]
    ELSE [meta |-> [format_id |-> <<url_key[2], url_key[3], url_key[4]>>,
                    vcodec |-> <<IF url_key[2] = "bytevc1" THEN "h265" ELSE url_key[2]>>,
                    tbr |-> IF url_key[4] \div 1000 = 0 THEN None
                            ELSE <<url_key[4] \div 1000>>,
                    quality |-> <<Qualities(url_key[3])>>],
          res |-> <<url_key[3]>>]

\* Lines 181-182: the dimensions first seen with a resolution tag are kept for it.
Remember_Latest(known, res, add_meta) ==
    (res :> [height |-> Get(add_meta, "height"), width |-> Get(add_meta, "width")]) @@ known

Remember(known, res, add_meta) ==
    LET k1 == SetDefault(known, res, <<>>)
        inner == SetDefault(SetDefault(k1[res], "height", Get(add_meta, "height")),
                            "width", Get(add_meta, "width"))
    IN (res :> inner) @@ k1

\* Lines 185-194: the descriptor of one URL; the parsed metadata overrides the
\* metadata of the slot.
Descriptor(url, addr, add_meta, parsed_meta) ==
    LET meta == parsed_meta @@ add_meta
    IN [url |-> url, filesize |-> addr.data_size,
        format_id |-> Get(meta, "format_id"), vcodec |-> Get(meta, "vcodec"),
        tbr |-> Get(meta, "tbr"), quality |-> Get(meta, "quality"),
        width |-> Get(meta, "width"), height |-> Get(meta, "height")]

\* Lines 178-194: extract_addr, as the descriptors it returns and the table of
\* known resolutions it leaves.
ExtractAddr_FirstUrl(addr, add_meta, known) ==
    [known |-> known,
     formats |-> <<Descriptor(addr.url_list[1], addr, add_meta,
                              ParseUrlKey(addr.url_key).meta)>>]

ExtractAddr(addr, add_meta, known) ==
    LET p == ParseUrlKey(addr.url_key)
    IN IF p.res # None
       THEN LET res == p.res[1]
                known2 == Remember(known, res, add_meta)
                parsed2 == known2[res] @@ p.meta
                add2 == SetDefault(add_meta, "height", <<ResHeight(res)>>)
            IN [known |-> known2,
                formats |-> [k \in 1 .. Len(addr.url_list) |->
                               Descriptor(addr.url_list[k], addr, add2, parsed2)]]
       ELSE [known |-> known,
             formats |-> [k \in 1 .. Len(addr.url_list) |->
                            Descriptor(addr.url_list[k], addr, add_meta, p.meta)]]

\* Lines 199-238: the metadata each slot passes to extract_addr.
AddMeta_Rotated(video, i) ==
    CASE i = 1 -> [format_id |-> <<"play_addr">>, vcodec |-> <<"h264">>,
                   width |-> video.width, height |-> video.height]
      [] i = 2 -> [format_id |-> <<"download_addr">>, vcodec |-> <<"h264">>,
                   width |-> video.height, height |-> video.width]
      [] i = 3 -> [format_id |-> <<"play_addr_h264">>, vcodec |-> <<"h264">>]
      [] i = 4 -> [format_id |-> <<"play_addr_bytevc1">>, vcodec |-> <<"h265">>]
      [] OTHER -> [format_id |-> <<"gear", i - 4>>, vcodec |-> <<"h264">>, tbr |-> None]

AddMeta(video, i) ==
    CASE i = 1 -> [format_id |-> <<"play_addr">>, vcodec |-> <<"h264">>,
                   width |-> video.width, height |-> video.height]
      [] i = 2 -> [format_id |-> <<"download_addr">>, vcodec |-> <<"h264">>,
                   width |-> video.width, height |-> video.height]
      [] i = 3 -> [format_id |-> <<"play_addr_h264">>, vcodec |-> <<"h264">>]
      [] i = 4 -> [format_id |-> <<"play_addr_bytevc1">>, vcodec |-> <<"h265">>]
      [] OTHER -> [format_id |-> <<"gear", i - 4>>, vcodec |-> <<"h264">>, tbr |-> None]

\* Lines 197-238: the descriptors of all slots, in order.
RECURSIVE ExtractAll(_, _, _, _)
ExtractAll(video, i, known, formats) ==
    IF i > Len(video.addrs) THEN formats
    ELSE IF video.addrs[i] = NoAddr THEN ExtractAll(video, i + 1, known, formats)
    ELSE LET r == ExtractAddr(video.addrs[i], AddMeta(video, i), known)
         IN ExtractAll(video, i + 1, r.known, formats \o r.formats)

\* What makes two descriptors look identical.
DedupKey(f) == <<f.quality, f.vcodec, f.filesize, f.tbr>>

\* InfoExtractor._remove_duplicate_formats: of descriptors that look identical
\* the first is kept.
RECURSIVE RemoveDuplicateFormats(_)
RemoveDuplicateFormats(formats) ==
    IF formats = <<>> THEN <<>>
    ELSE LET n == Len(formats)
             front == SubSeq(formats, 1, n - 1)
         IN IF \E j \in 1 .. n - 1 : DedupKey(formats[j]) = DedupKey(formats[n])
            THEN RemoveDuplicateFormats(front)
            ELSE Append(RemoveDuplicateFormats(front), formats[n])

\* The number a sort field stands for, an absent one below all others.
Rank(x) == IF x = None THEN -1 ELSE x[1]

CodecRank(vcodec) ==
    CASE vcodec = <<"h265">> -> 2
      [] vcodec = <<"h264">> -> 1
      [] OTHER -> 0

\* f ranks strictly below g by quality tier, codec, size, bitrate.
RanksBelow(f, g) ==
    LET a == <<Rank(f.quality), CodecRank(f.vcodec), Rank(f.filesize), Rank(f.tbr)>>
        b == <<Rank(g.quality), CodecRank(g.vcodec), Rank(g.filesize), Rank(g.tbr)>>
    IN \E i \in 1 .. 4 : a[i] < b[i] /\ \A j \in 1 .. i - 1 : a[j] = b[j]

\* InfoExtractor._sort_formats(formats, ('quality', 'codec', 'size', 'br')): a
\* stable sort, ascending.
RECURSIVE SortFormats(_)
SortFormats(formats) ==
    IF formats = <<>> THEN <<>>
    ELSE LET n == Len(formats)
             sorted == SortFormats(SubSeq(formats, 1, n - 1))
             k == Cardinality({j \in 1 .. n - 1 : ~RanksBelow(formats[n], sorted[j])})
         IN SubSeq(sorted, 1, k) \o <<formats[n]>> \o SubSeq(sorted, k + 1, n - 1)

\* Music blocks of raw items.
Songs == [title : {None, <<"Real Song">>}, author : {None, <<"Bob">>}]

PgcSounds == [title : {None, <<"Pgc Sound">>}, author : {None, <<"Carol">>}]

MusicInfos ==
    [is_original_sound : BOOLEAN,
     title : {<<"original sound - ", "alice">>, <<"My Song">>},
     owner_handle : {<<"alice">>, <<"bob">>},
     author : {None, <<"alice">>},
     matched_song : Songs,
     matched_pgc_sound : PgcSounds]

\* url_key tokens of raw streams: none, and the tokens of two codecs with the
\* same resolution tag.
UrlKeys ==
    {<<>>,
     <<"v09044", "h264", "540p", 500000>>,
     <<"v09044", "bytevc1", "540p", 500000>>}

\* A url_list has one URL or several.
UrlCounts == {1, 2}

DataSizes == {<<100>>, <<200>>}

\* What a stream address is made of: its token, the number of its URLs, its size.
AddrShapes == [url_key : UrlKeys, urls : UrlCounts, data_size : DataSizes]

\* The address of slot i with that shape.
MkAddr(i, shape) ==
    [url_key |-> shape.url_key,
     url_list |-> [j \in 1 .. shape.urls |-> <<"url", i, j>>],
     data_size |-> shape.data_size]

\* The dimensions video_info states, if any.
Dims == {[width |-> None, height |-> None], [width |-> <<576>>, height |-> <<1024>>]}

\* The raw video with a bit_rate list of ladder entries, addresses of the
\* shapes f in the slots of there, and the dimensions d.
MkVideo(ladder, there, f, d) ==
    [width |-> d.width, height |-> d.height,
     addrs |-> [i \in 1 .. 4 + ladder |->
                  IF i \in there THEN MkAddr(i, f[i]) ELSE NoAddr]]

\* Lines 159-299: the raw item is reconciled into its record.
ParseAwemeVideoApp ==
    /\ item.pc = "raw"
    /\ LET formats == ExtractAll(item.video, 1, <<>>, <<>>)
       IN item' = [item EXCEPT !.pc = "record",
                               !.raw_formats = formats,
                               !.formats = SortFormats(RemoveDuplicateFormats(formats)),
                               !.subtitles = GetSubtitles(item.captions),
                               !.track = MusicTrack(item.music),
                               !.artist = MusicAuthor(item.music)]
    /\ UNCHANGED <<args, working, call, drv>>

----------------------------------------------------------------------------
(* Specifications *)

Init ==
    /\ item = NoItem
    /\ args \in [app_version : BOOLEAN, manifest_app_version : BOOLEAN]
    /\ working = [i \in Insts |-> NoPin]
    /\ call = [t \in Threads |-> IdleCall]
    /\ drv = [t \in Threads |-> IdleDrv]

\* Extraction as the host runs it: one operation at a time, on one thread.
Sequential(t) == t = 1 /\ \A u \in Threads : Idle(u)

Next ==
    \E t \in Threads :
        \/ \E inst \in Insts, fatal \in BOOLEAN : Sequential(t) /\ ApiStart(t, inst, fatal)
        \/ CallBegin(t)
        \/ CallPinned(t)
        \/ CallSweep(t)
        \/ \E fatal \in BOOLEAN : ApiAgain(t, fatal)
        \/ ApiFinish(t)

Spec == Init /\ [][Next]_vars

\* A list extractor (sound, effect, tag) running its pagination, one collection
\* after another.
NextList ==
    \E t \in Threads :
        \/ Sequential(t) /\ EntriesStart(t)
        \/ CallBegin(t)
        \/ CallPinned(t)
        \/ CallSweep(t)
        \/ EntriesPageResult(t)
        \/ EntriesYield(t)
        \/ EntriesAdvance(t)
        \/ EntriesFinish(t)

SpecList == Init /\ [][NextList]_vars

\* Single-video, user-collection and short-link extractions, one after another.
NextExtract ==
    \E t \in Threads :
        \/ Sequential(t) /\ VideoStart(t)
        \/ Sequential(t) /\ DouyinStart(t)
        \/ Sequential(t) /\ UserStart(t)
        \/ Sequential(t) /\ VMStart(t)
        \/ VMResolved(t)
        \/ VMDispatch(t)
        \/ VMFinish(t)
        \/ CallBegin(t)
        \/ CallPinned(t)
        \/ CallSweep(t)
        \/ VideoAppResult(t)
        \/ VideoWeb(t)
        \/ DouyinWeb(t)
        \/ VideoFinish(t)
        \/ UserSecuidResult(t)
        \/ UserBrowsePage(t)
        \/ UserNextVideo(t)
        \/ UserItemResult(t)
        \/ UserFinish(t)

SpecExtract == Init /\ [][NextExtract]_vars

\* One collection, of a list extractor or of a user, read by its consumer from
\* a fresh process.
NextColl ==
    \E t \in Threads :
        \/ Sequential(t) /\ EntriesStart(t)
        \/ Sequential(t) /\ UserStart(t)
        \/ CallBegin(t)
        \/ CallPinned(t)
        \/ CallSweep(t)
        \/ EntriesPageResult(t)
        \/ EntriesYield(t)
        \/ EntriesAdvance(t)
        \/ UserSecuidResult(t)
        \/ UserBrowsePage(t)
        \/ UserNextVideo(t)
        \/ UserItemResult(t)

SpecColl == Init /\ [][NextColl]_vars

\* The reconciliation of one raw item, over the music blocks it may carry.
InitMusic ==
    /\ item \in {[NoItem EXCEPT !.pc = "raw", !.music = mi] : mi \in MusicInfos}
    /\ args = [app_version |-> FALSE, manifest_app_version |-> FALSE]
    /\ working = [i \in Insts |-> NoPin]
    /\ call = [t \in Threads |-> IdleCall]
    /\ drv = [t \in Threads |-> IdleDrv]

SpecMusic == InitMusic /\ [][ParseAwemeVideoApp]_vars

\* The reconciliation of one raw item, over the streams it may carry.
InitFormats ==
    /\ \E ladder \in 0 .. MaxLadder :
       \E there \in {P \in SUBSET (1 .. 4 + ladder) : Cardinality(P) <= MaxStreams} :
       \E f \in [there -> AddrShapes], d \in Dims :
         item = [NoItem EXCEPT !.pc = "raw", !.video = MkVideo(ladder, there, f, d)]
    /\ args = [app_version |-> FALSE, manifest_app_version |-> FALSE]
    /\ working = [i \in Insts |-> NoPin]
    /\ call = [t \in Threads |-> IdleCall]
    /\ drv = [t \in Threads |-> IdleDrv]

SpecFormats == InitFormats /\ [][ParseAwemeVideoApp]_vars

\* The reconciliation of one raw item, over the captions it may carry.
InitSubtitles ==
    /\ \E n \in 0 .. MaxCaptions :
       \E captions \in [1 .. n -> Captions] :
         item = [NoItem EXCEPT !.pc = "raw", !.captions = captions]
    /\ args = [app_version |-> FALSE, manifest_app_version |-> FALSE]
    /\ working = [i \in Insts |-> NoPin]
    /\ call = [t \in Threads |-> IdleCall]
    /\ drv = [t \in Threads |-> IdleDrv]

SpecSubtitles == InitSubtitles /\ [][ParseAwemeVideoApp]_vars

\* Two threads driving the same extractor instance, their calls interleaved at
\* the requests (no lock guards _WORKING_APP_VERSION).
NextConc ==
    \E t \in Threads :
        \/ \E fatal \in BOOLEAN : ApiStart(t, "TikTok", fatal)
        \/ CallBegin(t)
        \/ CallPinned(t)
        \/ CallSweep(t)
        \/ ApiFinish(t)

SpecConc == Init /\ [][NextConc]_vars

----------------------------------------------------------------------------
(* Properties of the negotiation *)

\* The calls whose frame has got past lines 106-115.
Entered(t) == call[t].pc \in {"pinned", "sweep", "returned", "raised"}

\* The requests of a sweep so far were made with candidates 1, 2, ... in list order.
InListOrder(reqs) == \A k \in 1 .. Len(reqs) : reqs[k] = k

\* C1: with nothing pinned, _call_api tries the candidates strictly in list
\* order; the first candidate whose call succeeds is pinned and its result
\* returned (two empty bodies and then valid JSON pin candidate 3); every later
\* call through that extractor issues exactly one request, with the pinned
\* pair, and never tries an earlier candidate again: the pair stays pinned.
C1_NegotiationOrder ==
    /\ [](\A t \in Threads : Entered(t) =>
            LET c == call[t] IN
            /\ c.entry = NoPin =>
                 /\ InListOrder(c.reqs)
                 /\ \A k \in 1 .. Len(c.outs) : k < Len(c.outs) => c.outs[k] # "ok"
                 /\ (c.pc = "returned" /\ c.ret = "json") =>
                      /\ c.outs[Len(c.outs)] = "ok"
                      /\ working[c.inst] = c.reqs[Len(c.reqs)]
                 /\ c.outs = <<"json0", "json0", "ok">> => working[c.inst] = 3
            /\ c.entry # NoPin =>
                 /\ working[c.inst] = c.entry
                 /\ Len(c.reqs) <= 1
                 /\ CallDone(t) => c.reqs = <<c.entry>>)
    /\ [][\A i \in Insts : working[i] # NoPin => working'[i] = working[i]]_vars

\* C1 witness: a call entered with candidate 3 pinned by an earlier sweep has
\* finished after one request.
C1_Witness ==
    \E t \in Threads :
        /\ call[t].pc = "returned"
        /\ call[t].entry = 3
        /\ call[t].reqs = <<3>>

\* C2: a call entered with a pinned pair (from an earlier success or from the
\* extractor arguments) that fails in any way has issued exactly one request,
\* raises that failure to its caller whatever fatal says, and leaves the pinned
\* pair as it was.
C2_PinnedFailurePropagates ==
    \A t \in Threads :
        (Entered(t) /\ call[t].entry # NoPin) =>
            LET c == call[t] IN
            /\ c.pc # "sweep"
            /\ (Len(c.outs) >= 1 /\ c.outs[1] # "ok") =>
                 /\ c.pc = "raised"
                 /\ c.err = c.outs[1]
                 /\ c.reqs = <<c.entry>>
                 /\ working[c.inst] = c.entry

\* C2 witness: a non-mandatory call pinned to a built-in candidate has raised
\* the empty-body failure.
C2_Witness ==
    \E t \in Threads :
        /\ call[t].pc = "raised"
        /\ call[t].entry \in _APP_VERSIONS
        /\ call[t].err = "json0"
        /\ ~call[t].fatal

\* C3: in an unpinned sweep the next candidate is tried only after a JSON
\* decode error at position 0; any other failure is raised at once, is the last
\* request of the call, and leaves nothing pinned.
C3_OnlyEmptyBodyRetries ==
    \A t \in Threads :
        (Entered(t) /\ call[t].entry = NoPin) =>
            LET c == call[t] IN
            \A k \in 1 .. Len(c.outs) :
                /\ k < Len(c.outs) => c.outs[k] = "json0"
                /\ c.outs[k] = "other" =>
                     /\ k = Len(c.outs)
                     /\ c.pc = "raised"
                     /\ c.err = "other"
                     /\ working[c.inst] = NoPin

\* C3 witness: the second candidate of a sweep failed otherwise than by an
\* empty body, after the first failed by one.
C3_Witness ==
    \E t \in Threads :
        /\ call[t].entry = NoPin
        /\ call[t].outs = <<"json0", "other">>
        /\ call[t].pc = "raised"

\* Every candidate of the list has been tried and failed with the empty-body signature.
AllFailedRetryably(c) ==
    /\ c.entry = NoPin
    /\ Len(c.outs) = NumAppVersions
    /\ \A k \in 1 .. Len(c.outs) : c.outs[k] = "json0"

\* C4: when every candidate including the last fails with the empty-body
\* signature, a mandatory call (fatal=True) raises the error and a
\* non-mandatory one (fatal=False) reports a warning and returns None.
C4_ExhaustionFatalOrNone ==
    \A t \in Threads :
        AllFailedRetryably(call[t]) =>
            LET c == call[t] IN
            /\ c.fatal => (c.pc = "raised" /\ c.err = "json0")
            /\ ~c.fatal => (c.pc = "returned" /\ c.ret = "None"
                              /\ c.warns >= NumAppVersions)
            /\ working[c.inst] = NoPin

\* C4 witness: a non-mandatory call has returned None after the whole list failed.
C4_Witness ==
    \E t \in Threads :
        /\ AllFailedRetryably(call[t])
        /\ ~call[t].fatal
        /\ call[t].ret = "None"

\* C5: with both extractor arguments supplied, every call uses the override
\* pair: it is pinned when the first call is entered, no sweep runs, no
\* built-in candidate is requested or pinned, and a failing call raises after
\* its single request.
C5_OverrideShortCircuits ==
    (args.app_version /\ args.manifest_app_version) =>
        /\ \A i \in Insts : working[i] \in {NoPin, OverridePin}
        /\ \A t \in Threads : Entered(t) =>
             LET c == call[t] IN
             /\ c.entry = OverridePin
             /\ working[c.inst] = OverridePin
             /\ c.pc # "sweep"
             /\ \A k \in 1 .. Len(c.reqs) : c.reqs[k] = OverridePin
             /\ (Len(c.outs) >= 1 /\ c.outs[1] # "ok") => (c.pc = "raised" /\ Len(c.reqs) = 1)

\* C5 witness: a call made with the override pair has failed with an empty body.
C5_Witness ==
    /\ args.app_version /\ args.manifest_app_version
    /\ \E t \in Threads :
         /\ call[t].pc = "raised"
         /\ call[t].reqs = <<OverridePin>>
         /\ call[t].err = "json0"

\* C6: pinning is process-wide: a _call_api entered while any extractor
\* instance of the process holds a pinned pair runs no sweep of its own and
\* issues its requests with that pair.
C6_ProcessWidePin ==
    \A t \in Threads :
        (Entered(t) /\ call[t].held # {}) =>
            /\ call[t].pc # "sweep"
            /\ \A k \in 1 .. Len(call[t].reqs) : call[t].reqs[k] \in call[t].held

\* C7: under concurrent use the pinned pair is write-once: once a negotiation
\* has pinned a candidate, no later step changes it.
C7_WriteOnce ==
    [][\A i \in Insts : working[i] # NoPin => working'[i] = working[i]]_vars

----------------------------------------------------------------------------
(* Properties of the pagination driver *)

\* The records of the pages got so far, page by page and in response order.
RECURSIVE ItemsOf(_)
ItemsOf(got) ==
    IF got = <<>> THEN <<>>
    ELSE ItemsOf(SubSeq(got, 1, Len(got) - 1))
           \o [k \in 1 .. got[Len(got)].n |-> <<Len(got), k>>]

\* C8: _entries stops after the first page whose response does not declare
\* has_more: a further page is requested only after a response that declared
\* it, and when the generator is exhausted it has yielded every item of pages
\* 1..k, page k being the first without has_more, with exactly k successful
\* page requests and none for page k+1.
C8_StopsWithoutHasMore ==
    \A t \in Threads : drv[t].op = "entries" =>
        LET d == drv[t]
            k == Len(d.got)
        IN /\ \A j \in 1 .. k : (j < k \/ d.pc = "call") => d.got[j].has_more
           /\ d.pc = "done" =>
                /\ k >= 1 /\ ~d.got[k].has_more
                /\ d.yielded = ItemsOf(d.got)
                /\ d.page = k
                /\ \A i \in 1 .. Len(d.log) : d.log[i].page <= k
                /\ Cardinality({i \in 1 .. Len(d.log) : d.log[i].out = "ok"}) = k
                /\ call[t].pc = "idle"

\* C8 witness: a collection whose second page is the first without has_more
\* has been read to its end, both pages carrying items.
C8_Witness ==
    \E t \in Threads :
        /\ drv[t].op = "entries" /\ drv[t].pc = "done"
        /\ Len(drv[t].got) = 2
        /\ drv[t].got[1].n >= 1 /\ drv[t].got[2].n >= 1
        /\ Len(drv[t].yielded) = drv[t].got[1].n + drv[t].got[2].n

\* C9: a page request that fails with the empty-body signature is followed by a
\* request for the same page with the same cursor, nothing being yielded in
\* between; a page request that fails otherwise ends the collection with no
\* further request; and the request that follows a successful one is for the
\* next page, with the cursor that response returned.
C9_PageFailureHandling ==
    \A t \in Threads : drv[t].op = "entries" =>
        LET d == drv[t]
            n == Len(d.log)
        IN \A i \in 1 .. n :
             /\ d.log[i].out = "json0" =>
                  IF i < n
                  THEN /\ d.log[i + 1].page = d.log[i].page
                       /\ d.log[i + 1].cursor = d.log[i].cursor
                       /\ d.log[i + 1].ny = d.log[i].ny
                  ELSE /\ d.pc = "call" /\ call[t].pc # "idle"
                       /\ d.page = d.log[i].page
                       /\ d.cursor = d.log[i].cursor
                       /\ Len(d.yielded) = d.log[i].ny
             /\ d.log[i].out = "other" =>
                  /\ i = n
                  /\ d.pc = "aborted"
                  /\ call[t].pc = "idle"
             /\ (d.log[i].out = "ok" /\ i < n) =>
                  /\ d.log[i + 1].page = d.log[i].page + 1
                  /\ d.log[i + 1].cursor = d.got[d.log[i].page].cursor

\* C9 witness: the request for page 2 failed with an empty body and its repeat
\* with the same cursor succeeded.
C9_Witness ==
    \E t \in Threads :
        /\ drv[t].op = "entries"
        /\ \E i \in 1 .. Len(drv[t].log) - 1 :
             /\ drv[t].log[i].page = 2
             /\ drv[t].log[i].out = "json0"
             /\ drv[t].log[i + 1].out = "ok"
             /\ drv[t].log[i + 1].cursor = drv[t].got[1].cursor

----------------------------------------------------------------------------
(* Properties of the feed lookups *)

\* C10: whenever a feed call succeeds but the requested id is absent from
\* aweme_list, the extraction goes on with the web page path, in single-video
\* extraction as in the user collection's per-video extraction and sec_uid
\* lookup.
C10_MissFallsBackToWeb ==
    \A t \in Threads :
        drv[t].miss => (drv[t].pc = "web" \/ drv[t].web)

----------------------------------------------------------------------------
(* Item failures inside a collection *)

\* C11: an item of a collection that is missing from the feed fails alone: the
\* user collection that met it has not ended in failure, it is still turning
\* to its videos or has been read to the end.
C11_ItemFailureIsLocal ==
    \A t \in Threads :
        (drv[t].op = "user" /\ drv[t].page >= 1 /\ drv[t].miss) =>
            drv[t].pc \in {"entries", "item", "done"}

----------------------------------------------------------------------------
(* The web fallback of single-video extraction *)

----------------------------------------------------------------------------
(* The short-link extractor *)

\* C13: a short-link extraction sends exactly one HEAD request; a resolved URL
\* that the short-link extractor itself would take ends it with
\* UnsupportedError and nothing more is requested; any other resolved URL is
\* handed back for re-dispatch, and what it is dispatched to is never the
\* short-link extractor again.
C13_ShortLinkNeverLoops ==
    /\ [](\A t \in Threads : drv[t].op = "vm" =>
            LET d == drv[t] IN
            /\ d.heads = 1
            /\ call[t].pc = "idle"
            /\ d.result = "UnsupportedError" <=>
                 (d.pc = "failed" /\ MatchesShortLink(d.url))
            /\ d.pc = "redirect" =>
                 (d.result = "url_result" /\ ~MatchesShortLink(d.url)))
    /\ [][\A t \in Threads :
            /\ (drv[t].op = "vm" /\ drv[t].pc = "failed") =>
                 (drv'[t] = IdleDrv /\ call'[t] = call[t])
            /\ (drv[t].op = "vm" /\ drv[t].pc = "redirect") =>
                 drv'[t].op # "vm"]_vars

\* C13 witness: the short link resolved to another short link and the
\* extraction ended with UnsupportedError after its one request.
C13_Witness ==
    \E t \in Threads :
        /\ drv[t].op = "vm" /\ drv[t].pc = "failed" /\ drv[t].heads = 1
        /\ drv[t].result = "UnsupportedError"
        /\ drv[t].url.host = "vt.tiktok.com"

----------------------------------------------------------------------------
(* Laziness and order of a collection *)

\* The records that precede page p of a collection: those of its pages 1..p-1.
Preceding(got, p) == ItemsOf(SubSeq(got, 1, p - 1))

\* Whether s is an initial part of r.
IsPrefix(s, r) == Len(s) <= Len(r) /\ s = SubSeq(r, 1, Len(s))

\* The records are produced in page order and, within a page, in response
\* order.
InPageOrder(d) ==
    IF d.op = "entries"
    THEN IsPrefix(d.yielded, ItemsOf(d.got))
    ELSE /\ Len(d.yielded) <= d.videos
         /\ \A k \in 1 .. Len(d.yielded) : d.yielded[k] = <<1, k>>

\* The request made for a record of its own (the feed request of a video of a
\* user collection) is in flight only once all records before it were pulled.
ItemRequestsLazy(d) ==
    (d.op = "user" /\ d.pc = "item") => (Len(d.yielded) = d.idx /\ d.idx < d.videos)

\* Every page request, made or in flight, came after the consumer had pulled
\* all records of the pages before it.
PageRequestsLazy(d) ==
    /\ \A i \in 1 .. Len(d.log) :
         d.log[i].ny = Len(Preceding(d.got, d.log[i].page))
    /\ d.pc \in {"call", "browse"} => Len(d.yielded) = Len(Preceding(d.got, d.page))

\* Every page request of the listing came before the first record.
PageRequestsEager(d) ==
    /\ \A i \in 1 .. Len(d.log) : d.log[i].ny = 0
    /\ d.pc = "browse" => d.yielded = <<>>

\* C14: the records of a collection are produced in page order and, within a
\* page, in response order, and no request for a later page or a later item is
\* made before the consumer has pulled every record that precedes it.
C14_LazyInOrder ==
    \A t \in Threads : drv[t].op \in {"entries", "user"} =>
        /\ InPageOrder(drv[t])
        /\ ItemRequestsLazy(drv[t])
        /\ PageRequestsLazy(drv[t])

\* C14, amended: the records of a collection are produced in page order and,
\* within a page, in response order. A list collection requests a later page
\* only after the consumer has pulled every record of the pages before it. A
\* user collection makes all its listing requests before its first record is
\* produced, and only the feed request of each video waits until every record
\* before that video has been pulled.
C14_LazyButForUserListing ==
    \A t \in Threads : drv[t].op \in {"entries", "user"} =>
        /\ InPageOrder(drv[t])
        /\ ItemRequestsLazy(drv[t])
        /\ drv[t].op = "entries" => PageRequestsLazy(drv[t])
        /\ drv[t].op = "user" => PageRequestsEager(drv[t])

\* C14 witness: a user collection whose first listing page carried a video and
\* announced a second page has requested that page and then produced a record.
C14_Witness ==
    \E t \in Threads :
        /\ drv[t].op = "user" /\ Len(drv[t].log) = 2
        /\ drv[t].got[1].n >= 1
        /\ Len(drv[t].yielded) >= 1

----------------------------------------------------------------------------
(* Track attribution *)

\* The matched author of a music block: that of the matched song, or else
\* that of the matched PGC sound.
MatchedAuthor(music_info) ==
    FirstAvailable(<<music_info.matched_song.author, music_info.matched_pgc_sound.author>>)

\* The matched title of a music block.
MatchedTitle(music_info) ==
    FirstAvailable(<<music_info.matched_song.title, music_info.matched_pgc_sound.title>>)

\* The music block is flagged as original sound and titled
\* 'original sound - <owner_handle>'.
GenericOriginal(music_info) ==
    /\ music_info.is_original_sound
    /\ music_info.title = <<"original sound - ">> \o music_info.owner_handle

\* C15: for a track flagged as original sound and titled 'original sound -
\* <owner_handle>', the track of the record is the matched title when there is
\* one, else 'original sound', and the artist is the matched author; in every
\* other case track and artist are the literal title and author.
C15_OriginalSoundAttribution ==
    item.pc = "record" =>
        IF GenericOriginal(item.music)
        THEN /\ item.track = IF MatchedTitle(item.music) # None
                             THEN MatchedTitle(item.music)
                             ELSE <<"original sound">>
             /\ item.artist = MatchedAuthor(item.music)
        ELSE /\ item.track = item.music.title
             /\ item.artist = item.music.author

\* C15, amended: as C15, but the artist of such a track is the matched author
\* when there is one, else the literal author.
C15_ArtistFallsBackToAuthor ==
    item.pc = "record" =>
        IF GenericOriginal(item.music)
        THEN /\ item.track = IF MatchedTitle(item.music) # None
                             THEN MatchedTitle(item.music)
                             ELSE <<"original sound">>
             /\ item.artist = IF MatchedAuthor(item.music) # None
                              THEN MatchedAuthor(item.music)
                              ELSE item.music.author
        ELSE /\ item.track = item.music.title
             /\ item.artist = item.music.author

\* C15 witness: the example of the interface section, reconciled:
\* 'original sound - alice' of alice with matched song 'Real Song' by Bob.
C15_Witness ==
    /\ item.pc = "record"
    /\ item.music.is_original_sound
    /\ item.music.title = <<"original sound - ", "alice">>
    /\ item.music.owner_handle = <<"alice">>
    /\ item.music.matched_song = [title |-> <<"Real Song">>, author |-> <<"Bob">>]
    /\ item.track = <<"Real Song">> /\ item.artist = <<"Bob">>

----------------------------------------------------------------------------
(* The format list of a reconciled item *)

\* The slots of the raw video that carry a stream address.
Present(video) == {i \in 1 .. Len(video.addrs) : video.addrs[i] # NoAddr}

\* The resolution tag the url_key of slot i carries, if any.
SlotRes(video, i) == ParseUrlKey(video.addrs[i].url_key).res

\* Slot i states width and height explicitly.
ExplicitDims(video, i) ==
    /\ Get(AddMeta(video, i), "width") # None
    /\ Get(AddMeta(video, i), "height") # None

\* The descriptors of a list that were made from the URLs of slot i.
OfSlot(formats, i) == {k \in 1 .. Len(formats) : formats[k].url[2] = i}

\* C16: of two streams processed in order whose url_key tokens carry the same
\* resolution tag, the first with explicit width and height and the second
\* without, every descriptor of the second has the width and height of the
\* first.
C16_InheritsResolution ==
    item.pc = "record" =>
        \A i, j \in Present(item.video) :
            (/\ i < j
             /\ SlotRes(item.video, i) # None
             /\ SlotRes(item.video, i) = SlotRes(item.video, j)
             /\ ExplicitDims(item.video, i)
             /\ ~ExplicitDims(item.video, j)) =>
                /\ OfSlot(item.raw_formats, j) # {}
                /\ \A k \in OfSlot(item.raw_formats, j) :
                     /\ item.raw_formats[k].width = Get(AddMeta(item.video, i), "width")
                     /\ item.raw_formats[k].height = Get(AddMeta(item.video, i), "height")
                /\ \A k \in OfSlot(item.formats, j) :
                     /\ item.formats[k].width = Get(AddMeta(item.video, i), "width")
                     /\ item.formats[k].height = Get(AddMeta(item.video, i), "height")

\* C16 witness: play_addr at 576x1024 and play_addr_bytevc1, which states no
\* dimensions, both tagged 540p; the descriptor of the latter is in the
\* format list at 576x1024.
C16_Witness ==
    /\ item.pc = "record"
    /\ item.video.width = <<576>> /\ item.video.height = <<1024>>
    /\ Present(item.video) = {1, 4}
    /\ item.video.addrs[1].url_key = <<"v09044", "h264", "540p", 500000>>
    /\ item.video.addrs[4].url_key = <<"v09044", "bytevc1", "540p", 500000>>
    /\ \E k \in OfSlot(item.formats, 4) :
         item.formats[k].width = <<576>> /\ item.formats[k].height = <<1024>>

\* C17: in the format list of a reconciled item, after deduplication, no two
\* descriptors have the same format_id.
C17_FormatIdsDistinct ==
    item.pc = "record" =>
        \A k, l \in 1 .. Len(item.formats) :
            k # l => item.formats[k].format_id # item.formats[l].format_id

\* C18: every descriptor of a reconciled item has a quality tier, and it is
\* one of the tiers of QUALITIES (360p, 540p, 720p, 1080p), whether or not the
\* raw stream states a resolution.
C18_QualityTierResolves ==
    item.pc = "record" =>
        \A k \in 1 .. Len(item.formats) :
            /\ item.formats[k].quality # None
            /\ item.formats[k].quality[1] \in 0 .. Len(QUALITIES) - 1

\* The entries of the bit_rate list of a raw video.
Ladder(video) == Len(video.addrs) - 4

\* C19: for a raw item whose bit_rate list has N entries, the format list
\* holds at least N descriptors before deduplication and at most N after.
C19_LadderBoundsFormats ==
    item.pc = "record" =>
        /\ Len(item.raw_formats) >= Ladder(item.video)
        /\ Len(item.formats) <= Ladder(item.video)

\* C19, amended: before deduplication the format list holds one descriptor
\* for every URL of every stream address the item carries, the four direct
\* slots included, and so at least one for every entry of the bit_rate list
\* that carries a play_addr with a URL; after deduplication it holds at most
\* as many as before, each of them one of those.
C19_OnePerUrlThenFewer ==
    item.pc = "record" =>
        LET raw == item.raw_formats
            video == item.video
        IN /\ \A i \in Present(video) :
                Cardinality(OfSlot(raw, i)) = Len(video.addrs[i].url_list)
           /\ \A k \in 1 .. Len(raw) : raw[k].url[2] \in Present(video)
           /\ Len(raw) >= Cardinality({i \in Present(video) : i > 4})
           /\ Len(item.formats) <= Len(raw)
           /\ \A k \in 1 .. Len(item.formats) :
                \E l \in 1 .. Len(raw) : item.formats[k] = raw[l]

\* C19 witness: an item with one bit_rate entry, which carries a play_addr,
\* and a download_addr of another size; two descriptors are left after
\* deduplication.
C19_Witness ==
    /\ item.pc = "record"
    /\ Ladder(item.video) = 1
    /\ Present(item.video) = {2, 5}
    /\ Len(item.formats) = 2

----------------------------------------------------------------------------
(* Subtitles *)

\* The captions of a raw item that give a subtitle block: those with a URL
\* whose download succeeded, in order.
Fetched(captions) == SelectSeq(captions, LAMBDA c : c.has_url /\ c.fetched)

\* The utterances of a caption that have a text, in order.
Spoken(utterances) == SelectSeq(utterances, LAMBDA line : line.text # "")

\* The blocks of a language, over all its captions.
BlocksOf(subtitles, lang) == IF lang \in DOMAIN subtitles THEN subtitles[lang] ELSE <<>>

\* C20: every fetched caption gives one block under its language ('en' if it
\* has none), a caption whose download failed gives none, and the cues of a
\* block are numbered 1, 2, ..., k consecutively in utterance order, with the
\* times of the utterances as HH:MM:SS,mmm.
C20_CuesNumberedConsecutively ==
    item.pc = "record" =>
        LET done == Fetched(item.captions)
        IN /\ \A lang \in {<<"en">>, <<"fr">>} :
                LET mine == SelectSeq(done, LAMBDA c : Language(c) = lang)
                    blocks == BlocksOf(item.subtitles, lang)
                IN /\ Len(blocks) = Len(mine)
                   /\ \A b \in 1 .. Len(blocks) :
                        LET lines == Spoken(mine[b].utterances)
                        IN /\ Len(blocks[b]) = Len(lines)
                           /\ \A k \in 1 .. Len(blocks[b]) :
                                /\ blocks[b][k].num = k
                                /\ blocks[b][k].text = lines[k].text
                                /\ blocks[b][k].start = SrtTimecode(lines[k].start_time)
                                /\ blocks[b][k].end = SrtTimecode(lines[k].end_time)
           /\ DOMAIN item.subtitles \subseteq {<<"en">>, <<"fr">>}

----------------------------------------------------------------------------
(* A negotiation that fails *)

\* A finished call that ran the sweep and got no response from any candidate:
\* every candidate failed with the empty-body signature, or one failed otherwise.
FailedNegotiation(c) ==
    /\ c.pc \in {"returned", "raised"}
    /\ c.entry = NoPin
    /\ c.outs[Len(c.outs)] # "ok"

\* C21: an unpinned _call_api never issues more requests than there are
\* candidates; when it ends without a successful candidate call (all failed
\* retryably, or one failed otherwise) nothing is pinned on its extractor, and
\* the next _call_api on that extractor is unpinned again and sweeps the list
\* from its first candidate, in list order.
C21_FailedNegotiationPinsNothing ==
    \A t \in Threads :
        LET c == call[t] IN
        /\ (Entered(t) /\ c.entry = NoPin) => Len(c.reqs) <= NumAppVersions
        /\ FailedNegotiation(c) => working[c.inst] = NoPin
        /\ drv[t].prev = "failed" =>
             /\ c.pc = "begin" => working[c.inst] = NoPin
             /\ Entered(t) =>
                  /\ c.entry = NoPin
                  /\ InListOrder(c.reqs)
                  /\ c.pc = "sweep" => c.count = Len(c.reqs) + 1
                  /\ Len(c.reqs) >= 1 => c.reqs[1] = 1

\* C21 witness: after a call whose negotiation failed, the next call on the
\* same extractor has made its first request, with the first candidate.
C21_Witness ==
    \E t \in Threads :
        /\ drv[t].prev = "failed"
        /\ call[t].entry = NoPin
        /\ Len(call[t].reqs) >= 1
        /\ call[t].reqs[1] = 1

----------------------------------------------------------------------------
(* Explicit dimensions *)

\* Slot j is processed before slot i and its url_key carries the same
\* resolution tag.
SameTagBefore(video, j, i) ==
    /\ j \in Present(video) /\ j < i
    /\ SlotRes(video, i) # None
    /\ SlotRes(video, j) = SlotRes(video, i)

\* C22: every descriptor of a slot that passes its own width and height to
\* extract_addr has exactly that width and height, whether or not its url_key
\* carries a resolution tag and whatever slots with the same tag were
\* processed before it.
C22_ExplicitDimsKept ==
    item.pc = "record" =>
        \A i \in Present(item.video) :
            ExplicitDims(item.video, i) =>
                /\ OfSlot(item.raw_formats, i) # {}
                /\ \A k \in OfSlot(item.raw_formats, i) :
                     /\ item.raw_formats[k].width = Get(AddMeta(item.video, i), "width")
                     /\ item.raw_formats[k].height = Get(AddMeta(item.video, i), "height")
                /\ \A k \in OfSlot(item.formats, i) :
                     /\ item.formats[k].width = Get(AddMeta(item.video, i), "width")
                     /\ item.formats[k].height = Get(AddMeta(item.video, i), "height")

\* C22 witness: download_addr at 576x1024, processed after a play_addr with
\* the same 540p tag, has its descriptor in the format list at 576x1024.
C22_Witness ==
    /\ item.pc = "record"
    /\ ExplicitDims(item.video, 2)
    /\ SameTagBefore(item.video, 1, 2)
    /\ \E k \in OfSlot(item.formats, 2) :
         item.formats[k].width = <<576>> /\ item.formats[k].height = <<1024>>

\* The case the table of known resolutions would decide against a slot: a
\* slot with explicit dimensions processed after a slot of the same tag that
\* has none. The slots that pass dimensions (lines 204-205, 212-213) come
\* first and pass the same video_info fields, so no raw item gives the case.
NoEarlierSlotWithoutDims ==
    item.pc = "record" =>
        \A i, j \in Present(item.video) :
            (ExplicitDims(item.video, i) /\ SameTagBefore(item.video, j, i)) =>
                ExplicitDims(item.video, j)

----------------------------------------------------------------------------
(* The API path of single-video extraction *)

\* The API path of the extraction in progress ended with an ExtractorError:
\* the id was not in the feed, or the feed call raised (a sweep that got no
\* response, or the one request of a pinned pair).
AppPathFailed(d) == d.miss \/ d.prev \in {"failed", "pinned failed"}

\* C23: in a single-video extraction of TikTokIE or DouyinIE every
\* ExtractorError of the API path (id not in the feed, a sweep that ended
\* without a response, a failed request under a pinned pair) is reported as a
\* warning and followed by the web page path, which is attempted exactly once
\* and only after the API path has failed; none of those errors is the
\* outcome the caller of _real_extract gets.
C23_AppErrorFallsBackToWeb ==
    /\ [](\A t \in Threads : drv[t].op \in SingleVideo =>
            LET d == drv[t] IN
            /\ d.result \notin AppErrors
            /\ (d.prev # "-" /\ AppPathFailed(d)) =>
                 /\ d.warned
                 /\ d.pc = "web" \/ d.web
            /\ (d.pc = "web" \/ d.web) =>
                 /\ d.prev # "-" /\ AppPathFailed(d)
                 /\ call[t].pc = "idle"
            /\ d.pc = "web" => ~d.web)
    /\ [][\A t \in Threads : drv[t].op \in SingleVideo =>
            /\ (drv[t].pc = "web" /\ drv'[t] # drv[t]) =>
                 (drv'[t].web /\ drv'[t].pc \in {"done", "failed"})
            /\ drv[t].web => (drv'[t] = IdleDrv /\ call'[t] = call[t])]_vars

\* C23 witness: a Douyin extraction whose feed call found no working
\* candidate has warned, read the web page once and returned the web record.
C23_Witness ==
    \E t \in Threads :
        /\ drv[t].op = "douyin"
        /\ drv[t].prev = "failed"
        /\ drv[t].warned /\ drv[t].web
        /\ drv[t].pc = "done" /\ drv[t].result = "web"

====
